---- MODULE Spec2Model ----
(***************************************************************************)
(* NeuralNetworkBuilder (coremltools/models/neural_network.py): the        *)
(* in-memory Core ML model document, its interface operations and its      *)
(* layer-adding operations, as a state machine.                            *)
(*                                                                         *)
(* The document is a protobuf message.  Three rules of protobuf messages   *)
(* shape the model:                                                        *)
(*   - reading a sub-message field does not set it; any mutation of the    *)
(*     sub-message (a scalar assignment, add(), append(), extend(),        *)
(*     ClearField(), MergeFromString('')) marks it present in its parent;  *)
(*   - setting one member of a oneof clears the other members;             *)
(*   - a repeated scalar field type-checks every appended element.         *)
(* Numbers stored as floats are small integers here (exactly               *)
(* representable), so float() keeps their value.                           *)
(***************************************************************************)
EXTENDS Integers, Sequences, FiniteSets, TLC

\* ------------------------------------------------------------------------
\* Bounds of the model
\* ------------------------------------------------------------------------
MaxCalls == 2

\* ------------------------------------------------------------------------
\* Sequence helpers
\* ------------------------------------------------------------------------
Range(s) == {s[i] : i \in 1..Len(s)}

IsPrefix(s, t) == Len(s) <= Len(t) /\ \A i \in 1..Len(s) : s[i] = t[i]

\* numpy: a.flatten() of a matrix (a sequence of rows), row-major
RECURSIVE Flatten(_)
Flatten(m) == IF m = <<>> THEN <<>> ELSE Head(m) \o Flatten(Tail(m))

\* numpy: a[lo:hi] on the first axis (0-based, hi exclusive, clamped)
Slice(a, lo, hi) ==
    LET h == IF hi > Len(a) THEN Len(a) ELSE hi
    IN  IF lo >= h THEN <<>> ELSE SubSeq(a, lo + 1, h)

\* numpy: a.any() on a vector or a matrix of numbers
AnyNonZero(v) == \E i \in 1..Len(v) : v[i] # 0

\* ------------------------------------------------------------------------
\* Feature types (FeatureType message, oneof Type)
\* ------------------------------------------------------------------------
EmptyType ==
    [Type |-> "none", shape |-> <<>>, dataType |-> "INVALID_ARRAY_DATA_TYPE",
     KeyType |-> "none", colorSpace |-> "INVALID_COLOR_SPACE",
     width |-> 0, height |-> 0]

\* type.multiArrayType, mutated: becomes the populated member of the oneof
MultiArrayOf(t) ==
    IF t.Type = "multiArrayType" THEN t
    ELSE [EmptyType EXCEPT !.Type = "multiArrayType"]

\* type.dictionaryType, mutated
DictionaryOf(t) ==
    IF t.Type = "dictionaryType" THEN t
    ELSE [EmptyType EXCEPT !.Type = "dictionaryType"]

\* type.imageType, mutated
ImageOf(t) ==
    IF t.Type = "imageType" THEN t
    ELSE [EmptyType EXCEPT !.Type = "imageType"]

ScalarType(kind) == [EmptyType EXCEPT !.Type = kind]

ArrayType(shape) ==
    [EmptyType EXCEPT !.Type = "multiArrayType", !.shape = shape,
                      !.dataType = "DOUBLE"]

Slot(name, type) == [name |-> name, type |-> type]

SlotNames(slots) == [i \in 1..Len(slots) |-> slots[i].name]

\* ------------------------------------------------------------------------
\* State
\* ------------------------------------------------------------------------
VARIABLES
    mode,                        \* the constructor's mode argument
    populated,                   \* spec.WhichOneof('Type')
    input,                       \* spec.description.input
    output,                      \* spec.description.output
    predictedFeatureName,        \* spec.description.predictedFeatureName
    predictedProbabilitiesName,  \* spec.description.predictedProbabilitiesName
    classLabels,                 \* nn_spec oneof ClassLabels
    layers,                      \* nn_spec.layers
    preprocessing,               \* nn_spec.preprocessing
    specificationVersion,        \* spec.specificationVersion
    call,                        \* the last call: operation, arguments, outcome
    calls                        \* the calls made so far, in order

vars == <<mode, populated, input, output, predictedFeatureName,
          predictedProbabilitiesName, classLabels, layers, preprocessing,
          specificationVersion, call, calls>>

description == <<input, output, predictedFeatureName, predictedProbabilitiesName>>

\* the whole document held by the builder
document == <<populated, input, output, predictedFeatureName,
              predictedProbabilitiesName, classLabels, layers, preprocessing,
              specificationVersion>>

Modes == {"none", "classifier", "regressor"}

\* nn_spec: the top-level variant the builder writes into
Variant(m) ==
    IF m = "classifier" THEN "neuralNetworkClassifier"
    ELSE IF m = "regressor" THEN "neuralNetworkRegressor"
    ELSE "neuralNetwork"

SPECIFICATION_VERSION == 1

NoLabels == [which |-> "none", vector |-> <<>>]

\* ------------------------------------------------------------------------
\* Construction
\* ------------------------------------------------------------------------
\* _interface_management.set_transform_interface_params: one slot per
\* (name, shape) feature, appended to the interface it is given
set_transform_interface_params(slots, features) ==
    slots \o [i \in 1..Len(features) |->
                 Slot(features[i].name, ArrayType(features[i].shape))]

Feature(name, shape) == [name |-> name, shape |-> shape]

InputFeatureChoices == { << Feature("data", <<3>>), Feature("aux", <<3, 2, 2>>) >> }

OutputFeatureChoices == { <<>>, << Feature("probs", <<2>>) >> }

\* the constructor arguments explored: every mode with an output declared, and
\* a classifier with none
ConstructChoices ==
    { c \in InputFeatureChoices \X OutputFeatureChoices \X Modes :
        c[2] = <<>> => c[3] = "classifier" }

\* NeuralNetworkBuilder.__init__
Construct(input_features, output_features, m) ==
    /\ mode = m
    /\ specificationVersion = SPECIFICATION_VERSION
    /\ input = set_transform_interface_params(<<>>, input_features)
    /\ output = set_transform_interface_params(<<>>, output_features)
    /\ populated = "none"
    /\ predictedFeatureName = ""
    /\ predictedProbabilitiesName = ""
    /\ classLabels = NoLabels
    /\ layers = <<>>
    /\ preprocessing = <<>>
    /\ call = [op |-> "__init__", result |-> "ok"]
    /\ calls = <<>>

Init == \E c \in ConstructChoices : Construct(c[1], c[2], c[3])

\* one more call may be made
CanCall == Len(calls) < MaxCalls

\* the entry of a call in the history of calls
Logged(c) ==
    Append(calls, [op |-> c.op, result |-> c.result, name |-> c.name,
                   input |-> c.input, output |-> c.output, arg |-> c.arg,
                   dims |-> IF "dims" \in DOMAIN c THEN c.dims ELSE <<>>])

\* the fields of a call record that an interface operation leaves empty
IfaceCall(op, result) ==
    [op |-> op, result |-> result, name |-> "", input |-> <<>>,
     output |-> <<>>, arg |-> ""]

\* ------------------------------------------------------------------------
\* set_input / set_output
\* ------------------------------------------------------------------------
\* input_shape keeping the leading dimension of a rank-2 dim
input_shape_leading(dim) ==
    IF Len(dim) = 3 THEN <<dim[1], dim[2], dim[3]>>
    ELSE IF Len(dim) = 2 THEN <<dim[1]>>
    ELSE dim

\* set_input: the shape stored for a dim of rank 1, 2 or 3
input_shape(dim) ==
    IF Len(dim) = 3 THEN <<dim[1], dim[2], dim[3]>>
    ELSE IF Len(dim) = 2 THEN <<dim[2]>>
    ELSE dim

\* set_input: the loop over enumerate(input_dims), from position idx on
RECURSIVE SetInputFrom(_, _, _)
SetInputFrom(slots, dims, idx) ==
    IF idx > Len(dims) THEN [slots |-> slots, result |-> "ok"]
    ELSE IF Len(dims[idx]) \notin {1, 2, 3}
         THEN [slots |-> slots, result |-> "RuntimeError"]
    ELSE IF idx > Len(slots)
         THEN [slots |-> slots, result |-> "IndexError"]
    ELSE SetInputFrom(
            [slots EXCEPT ![idx].type =
                [MultiArrayOf(@) EXCEPT !.shape = input_shape(dims[idx]),
                                        !.dataType = "DOUBLE"]],
            dims, idx + 1)

\* set_output: shape.extend(dim), the shape stored for a dim
extended_shape(dim) == dim

\* set_output: the loop over enumerate(output_dims), from position idx on
RECURSIVE SetOutputFrom(_, _, _)
SetOutputFrom(slots, dims, idx) ==
    IF idx > Len(dims) THEN [slots |-> slots, result |-> "ok"]
    ELSE IF idx > Len(slots)
         THEN [slots |-> slots, result |-> "IndexError"]
    ELSE SetOutputFrom(
            [slots EXCEPT ![idx].type =
                [MultiArrayOf(@) EXCEPT !.shape = extended_shape(dims[idx]),
                                        !.dataType = "DOUBLE"]],
            dims, idx + 1)

DimsChoices ==
    { << <<4>> >>,
      << <<1, 2>>, <<1, 2, 2>> >>,
      << <<2, 2, 2>> >>,
      << <<5>>, <<1, 1, 1, 1>> >>,
      << <<>> >>,
      << <<2>>, <<2>>, <<2>> >>,
      << <<1, 3>> >> }

InputNamesChoices == { <<"data", "aux">>, <<"aux", "data">> }

\* the names and dims tried by set_input: every dims list under the names of
\* the interface, and two of them under the names in the other order
SetInputChoices ==
    { a \in InputNamesChoices \X DimsChoices :
        a[1] = <<"aux", "data">> => a[2] \in { << <<4>> >>, << <<1, 2>>, <<1, 2, 2>> >> } }

OutputNamesChoices == { <<"probs">> }

set_input(input_names, input_dims) ==
    LET r == SetInputFrom(input, input_dims, 1)
    IN  /\ CanCall
        /\ input' = r.slots
        /\ call' = [IfaceCall("set_input", r.result) EXCEPT !.input = input_names]
                      @@ [dims |-> input_dims]
        /\ calls' = Logged(call')
        /\ UNCHANGED <<mode, populated, output, predictedFeatureName,
                       predictedProbabilitiesName, classLabels, layers,
                       preprocessing, specificationVersion>>

set_output(output_names, output_dims) ==
    LET r == SetOutputFrom(output, output_dims, 1)
    IN  /\ CanCall
        /\ output' = r.slots
        /\ call' = [IfaceCall("set_output", r.result) EXCEPT !.output = output_names]
                      @@ [dims |-> output_dims]
        /\ calls' = Logged(call')
        /\ UNCHANGED <<mode, populated, input, predictedFeatureName,
                       predictedProbabilitiesName, classLabels, layers,
                       preprocessing, specificationVersion>>

\* ------------------------------------------------------------------------
\* set_class_labels
\* ------------------------------------------------------------------------
\* a class label: its Python type and which value of that type it is
Label(ty, v) == [ty |-> ty, v |-> v]

Ints == << Label("int", 1), Label("int", 2) >>

Strs == << Label("str", 2), Label("str", 1) >>

\* the label lists and predicted feature names tried
ClassLabelsChoices ==
    { << <<>>, "classLabel" >>,
      << Ints, "classLabel" >>,
      << Ints, "probs" >>,
      << Strs, "classLabel" >>,
      << <<Label("int", 1), Label("str", 1)>>, "classLabel" >>,
      << <<Label("str", 1), Label("int", 1)>>, "classLabel" >>,
      << <<Label("float", 1)>>, "classLabel" >> }

\* the nn_spec field that holds labels of a Python type, and its element type
LabelField(ty) == IF ty = "int" THEN "int64ClassLabels" ELSE "stringClassLabels"

KeyField(ty) == IF ty = "int" THEN "int64KeyType" ELSE "stringKeyType"

TypeField(ty) == IF ty = "int" THEN "int64Type" ELSE "stringType"

\* nn_spec has class-label fields only in the classifier variant
HasLabelFields(m) == m = "classifier"

\* ClearLabels without the ClearField call
KeepLabels(cl, field) == cl

\* nn_spec.ClearField(field) on the ClassLabels oneof
ClearLabels(cl, field) == IF cl.which = field THEN NoLabels ELSE cl

\* for c in class_labels: nn_spec.<field>.vector.append(c); the repeated
\* field raises TypeError on an element that is not of its type
RECURSIVE AppendLabels(_, _, _)
AppendLabels(cl, labels, ty) ==
    IF labels = <<>> THEN [classLabels |-> cl, result |-> "ok"]
    ELSE IF Head(labels).ty # ty THEN [classLabels |-> cl, result |-> "TypeError"]
    ELSE AppendLabels(
            [which |-> LabelField(ty),
             vector |-> Append(IF cl.which = LabelField(ty) THEN cl.vector ELSE <<>>,
                               Head(labels).v)],
            Tail(labels), ty)

\* the document parts set_class_labels writes, as they are before the call
LabelState ==
    [output |-> output, predictedFeatureName |-> predictedFeatureName,
     predictedProbabilitiesName |-> predictedProbabilitiesName,
     classLabels |-> classLabels, populated |-> populated]

\* NoOutput with the predicted name written before the output check
NoOutputLate(d, predicted_feature_name) ==
    [d EXCEPT !.predictedFeatureName = predicted_feature_name]
        @@ [result |-> "ValueError"]

\* len(spec.description.output) == 0: raise ValueError("Model should have
\* atleast one output ..."), nothing written
NoOutput(d, predicted_feature_name) == d @@ [result |-> "ValueError"]

\* AddSlot inserting the new slot at the head of the list
AddSlotFirst(slots, name) == <<Slot(name, EmptyType)>> \o slots

\* classLabel = spec.description.output.add(); classLabel.name = ...
AddSlot(slots, name) == Append(slots, Slot(name, EmptyType))

\* the body of set_class_labels: the parts it writes and the outcome
SetClassLabels(d, m, class_labels, predicted_feature_name) ==
    IF Len(d.output) = 0 THEN NoOutput(d, predicted_feature_name)
    ELSE
    LET \* probOutput.type.dictionaryType.MergeFromString('')
        d1 == [d EXCEPT !.output[1].type = DictionaryOf(@)]
    IN  IF Len(class_labels) = 0 THEN d1 @@ [result |-> "ok"]
        ELSE
        LET class_type == class_labels[1].ty
        IN  IF class_type \notin {"int", "str"} THEN d1 @@ [result |-> "TypeError"]
            ELSE
            LET \* the two names and the new output slot
                d2 == [d1 EXCEPT
                         !.predictedProbabilitiesName = d1.output[1].name,
                         !.predictedFeatureName = predicted_feature_name,
                         !.output = AddSlot(@, predicted_feature_name)]
                n  == Len(d2.output)
            IN  \* nn_spec.ClearField(...) raises ValueError on a variant
                \* that has no class-label field
                IF ~HasLabelFields(m) THEN d2 @@ [result |-> "ValueError"]
                ELSE
                LET r  == AppendLabels(ClearLabels(d2.classLabels, LabelField(class_type)),
                                       class_labels, class_type)
                    d3 == [d2 EXCEPT
                             !.populated = Variant(m),
                             !.output[1].type.KeyType = KeyField(class_type),
                             !.output[n].type = ScalarType(TypeField(class_type)),
                             !.classLabels = r.classLabels]
                IN  d3 @@ [result |-> r.result]

set_class_labels(class_labels, predicted_feature_name) ==
    LET r == SetClassLabels(LabelState, mode, class_labels, predicted_feature_name)
    IN  /\ CanCall
        /\ output' = r.output
        /\ predictedFeatureName' = r.predictedFeatureName
        /\ predictedProbabilitiesName' = r.predictedProbabilitiesName
        /\ classLabels' = r.classLabels
        /\ populated' = r.populated
        /\ call' = IfaceCall("set_class_labels", r.result)
                      @@ [class_labels |-> class_labels,
                          predicted_feature_name |-> predicted_feature_name]
        /\ calls' = Logged(call')
        /\ UNCHANGED <<mode, input, layers, preprocessing, specificationVersion>>

\* ------------------------------------------------------------------------
\* add_optionals
\* ------------------------------------------------------------------------
OptionalsChoices ==
    { <<  <<>>, <<>>  >>,
      <<  << Feature("h_in", <<1>>) >>, <<>>  >>,
      <<  << Feature("h_in", <<1>>) >>, << Feature("h_out", <<1>>) >>  >> }

add_optionals(optionals_in, optionals_out) ==
    /\ CanCall
    /\ IF optionals_in = <<>> /\ optionals_out = <<>>
       THEN UNCHANGED <<input, output>>
       ELSE /\ input' = set_transform_interface_params(input, optionals_in)
            /\ output' = set_transform_interface_params(output, optionals_out)
    /\ call' = IfaceCall("add_optionals", "ok")
                  @@ [optionals_in |-> optionals_in, optionals_out |-> optionals_out]
    /\ calls' = Logged(call')
    /\ UNCHANGED <<mode, populated, predictedFeatureName,
                   predictedProbabilitiesName, classLabels, layers,
                   preprocessing, specificationVersion>>

\* ------------------------------------------------------------------------
\* set_pre_processing_parameters
\* ------------------------------------------------------------------------
\* ColorSpace ignoring is_bgr
ColorSpaceRGB(channels, is_bgr) == IF channels = 1 THEN "GRAYSCALE" ELSE "RGB"

ColorSpace(channels, is_bgr) ==
    IF channels = 1 THEN "GRAYSCALE" ELSE IF is_bgr THEN "BGR" ELSE "RGB"

\* the loop over spec.description.input, from position idx on; unpacking a
\* shape that is not of rank 3 into (channels, height, width) raises ValueError
RECURSIVE PromoteFrom(_, _, _, _)
PromoteFrom(slots, image_input_names, is_bgr, idx) ==
    IF idx > Len(slots) THEN [slots |-> slots, result |-> "ok"]
    ELSE
    LET s == slots[idx]
    IN  IF s.name \notin Range(image_input_names) \/ s.type.Type # "multiArrayType"
        THEN PromoteFrom(slots, image_input_names, is_bgr, idx + 1)
        ELSE IF Len(s.type.shape) # 3 \/ s.type.shape[1] \notin {1, 3}
        THEN [slots |-> slots, result |-> "ValueError"]
        ELSE PromoteFrom(
                [slots EXCEPT ![idx].type =
                    [ImageOf(@) EXCEPT
                        !.colorSpace = ColorSpace(s.type.shape[1], is_bgr),
                        !.width = s.type.shape[3],
                        !.height = s.type.shape[2]]],
                image_input_names, is_bgr, idx + 1)

NoScaler == [Preprocessor |-> "none", channelScale |-> 0, redBias |-> 0,
             greenBias |-> 0, blueBias |-> 0, grayBias |-> 0]

\* the image input names and pixel orders tried
ImageChoices ==
    { << <<>>, FALSE >>, << <<"aux">>, FALSE >>, << <<"aux">>, TRUE >>,
      << <<"data", "aux">>, FALSE >> }

set_pre_processing_parameters(image_input_names, is_bgr, red_bias, green_bias, blue_bias, gray_bias, image_scale) ==
    LET r == PromoteFrom(input, image_input_names, is_bgr, 1)
        res == IF image_input_names = <<>> THEN "ok" ELSE r.result
    IN  /\ CanCall
        /\ IF image_input_names = <<>>
           THEN UNCHANGED <<input, preprocessing, populated>>
           ELSE /\ input' = r.slots
                /\ populated' = Variant(mode)
                /\ preprocessing' =
                      Append(preprocessing,
                             IF r.result = "ok"
                             THEN [NoScaler EXCEPT !.Preprocessor = "scaler",
                                                   !.channelScale = image_scale,
                                                   !.redBias = red_bias,
                                                   !.blueBias = blue_bias,
                                                   !.greenBias = green_bias,
                                                   !.grayBias = gray_bias]
                             ELSE NoScaler)
        /\ call' = IfaceCall("set_pre_processing_parameters", res)
                      @@ [image_input_names |-> image_input_names, is_bgr |-> is_bgr]
        /\ calls' = Logged(call')
        /\ UNCHANGED <<mode, output, predictedFeatureName,
                       predictedProbabilitiesName, classLabels, layers,
                       specificationVersion>>

\* ------------------------------------------------------------------------
\* Layers: what every add_* operation shares
\* ------------------------------------------------------------------------
NoParams == [empty |-> TRUE]

\* a layer record: name, input names, output names, the populated member of
\* the oneof layer ("none" when none is) and that member's content
Layer(name, ins, outs, kind, params) ==
    [name |-> name, input |-> ins, output |-> outs, layer |-> kind,
     params |-> params]

\* AppendLayer inserting the new record at the head of the list
PrependLayer(ls, rec) == <<rec>> \o ls

\* spec_layer = nn_spec.layers.add()
AppendLayer(ls, rec) == Append(ls, rec)

LayerCall(op, result, name, ins, outs, arg) ==
    [op |-> op, result |-> result, name |-> name, input |-> ins,
     output |-> outs, arg |-> arg]

\* add_layer also writing the layer's name as the predicted feature name
add_layer_naming(c, rec) ==
    /\ CanCall
    /\ layers' = AppendLayer(layers, rec)
    /\ populated' = Variant(mode)
    /\ predictedFeatureName' = rec.name
    /\ call' = c
    /\ calls' = Logged(c)
    /\ UNCHANGED <<mode, input, output, predictedProbabilitiesName, classLabels,
                   preprocessing, specificationVersion>>

\* a call that added the record rec and ended as c.result
add_layer(c, rec) ==
    /\ CanCall
    /\ layers' = AppendLayer(layers, rec)
    /\ populated' = Variant(mode)
    /\ call' = c
    /\ calls' = Logged(c)
    /\ UNCHANGED <<mode, input, output, predictedFeatureName,
                   predictedProbabilitiesName, classLabels, preprocessing,
                   specificationVersion>>

\* an optional argument: None or a value
None == [isNone |-> TRUE, v |-> <<>>]

Some(v) == [isNone |-> FALSE, v |-> v]

LayerNames == {"layer"}

InputBlobs == {"data", "h"}

OutputBlobs == {"h"}

\* the layers whose input is always the network's first input
FirstBlob == {"data"}

\* ------------------------------------------------------------------------
\* add_inner_product, add_embedding, add_softmax
\* ------------------------------------------------------------------------
\* the argument values a dense layer operation was called with
DenseArgs(W, Wb, nB, nC, has_bias) ==
    [args |-> [W |-> W, Wb |-> Wb, nB |-> nB, nC |-> nC, has_bias |-> has_bias]]

\* add_inner_product writing the bias whatever has_bias is
add_inner_product_biased(name, W, Wb, nB, nC, has_bias, input_name, output_name) ==
    add_layer(
        LayerCall("add_inner_product", "ok", name, <<input_name>>, <<output_name>>, "")
            @@ DenseArgs(W, Wb, nB, nC, has_bias),
        Layer(name, <<input_name>>, <<output_name>>, "innerProduct",
              [inputChannels |-> nB, outputChannels |-> nC, hasBias |-> has_bias,
               weights |-> Flatten(W), bias |-> Wb]))

add_inner_product(name, W, Wb, nB, nC, has_bias, input_name, output_name) ==
    add_layer(
        LayerCall("add_inner_product", "ok", name, <<input_name>>, <<output_name>>, "")
            @@ DenseArgs(W, Wb, nB, nC, has_bias),
        Layer(name, <<input_name>>, <<output_name>>, "innerProduct",
              [inputChannels |-> nB, outputChannels |-> nC, hasBias |-> has_bias,
               weights |-> Flatten(W),
               bias |-> IF has_bias THEN Wb ELSE <<>>]))

add_embedding(name, W, Wb, nB, nC, has_bias, input_name, output_name) ==
    add_layer(
        LayerCall("add_embedding", "ok", name, <<input_name>>, <<output_name>>, "")
            @@ DenseArgs(W, Wb, nB, nC, has_bias),
        Layer(name, <<input_name>>, <<output_name>>, "embedding",
              [inputDim |-> nB, outputChannels |-> nC, hasBias |-> has_bias,
               weights |-> Flatten(W),
               bias |-> IF has_bias THEN Wb ELSE <<>>]))

add_softmax(name, input_name, output_name) ==
    add_layer(
        LayerCall("add_softmax", "ok", name, <<input_name>>, <<output_name>>, ""),
        Layer(name, <<input_name>>, <<output_name>>, "softmax", NoParams))

\* a weight matrix of shape (3, 2) and its bias
DenseW == << <<1, 2>>, <<3, 4>>, <<5, 6>> >>

DenseB == <<7, 8>>

\* ------------------------------------------------------------------------
\* add_activation
\* ------------------------------------------------------------------------
\* The params argument: None, a float, a list of floats, a numpy array or a
\* list of numpy arrays.  Activation parameters are written in tenths
\* (0.3 is 3), so that the defaults of the code are integers.
Scalar(x) == [isNone |-> FALSE, kind |-> "scalar", v |-> <<x>>]

List(xs) == [isNone |-> FALSE, kind |-> "list", v |-> xs]

Array(xs) == [isNone |-> FALSE, kind |-> "array", v |-> xs]

Arrays(a, b) == [isNone |-> FALSE, kind |-> "arrays", v |-> <<a, b>>]

NoParam == [isNone |-> TRUE, kind |-> "None", v |-> <<>>]

\* params[0], params[1] can be read as two numbers
HasTwoItems(params) == params.kind \in {"list", "array"} /\ Len(params.v) >= 2

\* params[0] can be read as a number
HasOneItem(params) == params.kind \in {"list", "array"} /\ Len(params.v) >= 1

\* float(params) succeeds
IsFloatable(params) ==
    \/ params.kind = "scalar"
    \/ params.kind = "array" /\ Len(params.v) = 1

\* the exception of params[0], params[1] (or of storing the item read) when
\* params does not hold enough numbers: None and a float cannot be indexed,
\* an item that is an array of several values is not a float
ItemError(params) ==
    IF params.isNone \/ params.kind \in {"scalar", "arrays"} THEN "TypeError"
    ELSE "IndexError"

NoActivation == [NonlinearityType |-> "none", alpha |-> <<>>, beta |-> <<>>]

Nonlinearity(kind, alpha, beta) ==
    [NonlinearityType |-> kind, alpha |-> alpha, beta |-> beta]

\* an exception raised while the activation message is still untouched
\* leaves the layer with no member of its oneof populated
Raised(err) == [layer |-> "none", params |-> NoActivation, result |-> err]

Activated(kind, alpha, beta) ==
    [layer |-> "activation", params |-> Nonlinearity(kind, alpha, beta),
     result |-> "ok"]

\* the if/elif chain of add_activation: the activation message written and
\* the outcome
ActivationParams(non_linearity, params) ==
    CASE non_linearity = "RELU" -> Activated("ReLU", <<>>, <<>>)
      [] non_linearity = "SIGMOID" -> Activated("sigmoid", <<>>, <<>>)
      [] non_linearity = "TANH" -> Activated("tanh", <<>>, <<>>)
      [] non_linearity = "SCALED_TANH" ->
            IF params.isNone THEN Activated("scaledTanh", <<0>>, <<0>>)
            ELSE IF HasTwoItems(params)
                 THEN Activated("scaledTanh", <<params.v[1]>>, <<params.v[2]>>)
            ELSE [layer |-> "activation",
                  params |-> Nonlinearity("scaledTanh", <<0>>, <<0>>),
                  result |-> ItemError(params)]
      [] non_linearity = "SOFTPLUS" -> Activated("softplus", <<>>, <<>>)
      [] non_linearity = "SOFTSIGN" -> Activated("softsign", <<>>, <<>>)
      [] non_linearity = "SIGMOID_HARD" ->
            IF params.isNone THEN Activated("sigmoidHard", <<2>>, <<5>>)
            ELSE IF HasTwoItems(params)
                 THEN Activated("sigmoidHard", <<params.v[1]>>, <<params.v[2]>>)
            ELSE Raised(ItemError(params))
      [] non_linearity = "LEAKYRELU" ->
            IF params.isNone THEN Activated("leakyReLU", <<3>>, <<>>)
            ELSE IF HasOneItem(params)
                 THEN Activated("leakyReLU", <<params.v[1]>>, <<>>)
            ELSE Raised(ItemError(params))
      [] non_linearity = "PRELU" ->
            IF params.kind = "array" THEN Activated("PReLU", params.v, <<>>)
            ELSE Raised("AttributeError")
      [] non_linearity = "ELU" ->
            IF IsFloatable(params) THEN Activated("ELU", <<params.v[1]>>, <<>>)
            ELSE Raised("TypeError")
      [] non_linearity = "PARAMETRICSOFTPLUS" ->
            IF params.kind = "arrays"
            THEN Activated("parametricSoftplus", params.v[1], params.v[2])
            ELSE IF params.isNone \/ params.kind = "scalar" THEN Raised("TypeError")
            ELSE IF Len(params.v) < 2 THEN Raised("IndexError")
            ELSE IF params.kind = "array"
                 THEN Activated("parametricSoftplus", <<params.v[1]>>, <<params.v[2]>>)
            ELSE Raised("AttributeError")
      [] non_linearity = "THRESHOLDEDRELU" ->
            IF params.isNone THEN Activated("thresholdedReLU", <<10>>, <<>>)
            ELSE IF IsFloatable(params)
                 THEN Activated("thresholdedReLU", <<params.v[1]>>, <<>>)
            ELSE Raised("TypeError")
      [] non_linearity = "LINEAR" -> Activated("linear", <<>>, <<>>)
      [] OTHER -> Raised("TypeError")

add_activation(name, non_linearity, input_name, output_name, params) ==
    LET r == ActivationParams(non_linearity, params)
    IN  add_layer(
            LayerCall("add_activation", r.result, name, <<input_name>>,
                      <<output_name>>, non_linearity)
               @@ [params |-> params],
            Layer(name, <<input_name>>, <<output_name>>, r.layer, r.params))

\* the activations and parameters tried
ActivationChoices ==
    { <<"RELU", NoParam, "data">>, <<"SIGMOID_HARD", NoParam, "h">>,
      <<"LEAKYRELU", List(<<7>>), "h">>, <<"SWISH", NoParam, "data">> }

\* ------------------------------------------------------------------------
\* add_elementwise, add_upsample, add_repeat
\* ------------------------------------------------------------------------
\* the layer member an elementwise mode populates, and the outcome
ElementwiseParams(mode_) ==
    CASE mode_ = "CONCAT" ->
            [layer |-> "concat", params |-> [sequenceConcat |-> FALSE], result |-> "ok"]
      [] mode_ = "SEQUENCE_CONCAT" ->
            [layer |-> "concat", params |-> [sequenceConcat |-> TRUE], result |-> "ok"]
      [] mode_ = "ADD" -> [layer |-> "add", params |-> NoParams, result |-> "ok"]
      [] mode_ = "MULTIPLY" ->
            [layer |-> "multiply", params |-> NoParams, result |-> "ok"]
      [] mode_ = "COS" ->
            [layer |-> "dot", params |-> [cosineSimilarity |-> TRUE], result |-> "ok"]
      [] mode_ = "DOT" ->
            [layer |-> "dot", params |-> [cosineSimilarity |-> FALSE], result |-> "ok"]
      [] mode_ = "MAX" -> [layer |-> "max", params |-> NoParams, result |-> "ok"]
      [] mode_ = "AVE" -> [layer |-> "average", params |-> NoParams, result |-> "ok"]
      [] OTHER -> [layer |-> "none", params |-> NoParams, result |-> "ValueError"]

add_elementwise(name, input_names, output_name, mode_) ==
    LET r == ElementwiseParams(mode_)
    IN  add_layer(
            LayerCall("add_elementwise", r.result, name, input_names,
                      <<output_name>>, mode_),
            Layer(name, input_names, <<output_name>>, r.layer, r.params))

\* the input names and modes tried
ElementwiseChoices ==
    { << <<"data", "h">>, "ADD" >>, << <<"data">>, "CONCAT" >>,
      << <<"data", "h", "aux">>, "DOT" >>, << <<"data", "h">>, "MIN" >> }

add_upsample(name, scaling_factor_h, scaling_factor_w, input_name, output_name) ==
    add_layer(
        LayerCall("add_upsample", "ok", name, <<input_name>>, <<output_name>>, ""),
        Layer(name, <<input_name>>, <<output_name>>, "upsample",
              [scalingFactor |-> <<scaling_factor_h, scaling_factor_w>>]))

add_repeat(name, nrep, input_name, output_name) ==
    add_layer(
        LayerCall("add_repeat", "ok", name, <<input_name>>, <<output_name>>, ""),
        Layer(name, <<input_name>>, <<output_name>>, "sequenceRepeat",
              [nRepetitions |-> nrep]))

\* ------------------------------------------------------------------------
\* add_convolution
\* ------------------------------------------------------------------------
\* A kernel tensor W of shape (H, W, C, F) is W[h][w][c][f], 1-based.
\* numpy: a.transpose(axes) of a 4-dimensional array: axis k of the result is
\* axis axes[k] of a (axes 0-based, as in the code)
Transpose4(a, axes) ==
    LET n == <<Len(a), Len(a[1]), Len(a[1][1]), Len(a[1][1][1])>>
        At(i) == LET src == [k \in 1..4 |->
                                i[CHOOSE m \in 1..4 : axes[m] + 1 = k]]
                 IN  a[src[1]][src[2]][src[3]][src[4]]
    IN  [i1 \in 1..n[axes[1] + 1] |-> [i2 \in 1..n[axes[2] + 1] |->
        [i3 \in 1..n[axes[3] + 1] |-> [i4 \in 1..n[axes[4] + 1] |->
            At(<<i1, i2, i3, i4>>)]]]]

\* numpy: a.flatten() of a 4-dimensional array, row-major
Flatten4(a) == Flatten(Flatten(Flatten(a)))

\* TransposeFCHW with the two kernel axes exchanged
TransposeFCWH(W) == Flatten4(Transpose4(W, <<3, 2, 1, 0>>))

\* W.transpose((3,2,0,1)).flatten()
TransposeFCHW(W) == Flatten4(Transpose4(W, <<3, 2, 0, 1>>))

\* W.transpose((2,3,0,1)).flatten()
TransposeCFHW(W) == Flatten4(Transpose4(W, <<2, 3, 0, 1>>))

\* for idx in xrange(n): target.append(float(source[idx])): the values
\* appended, and IndexError when the source is shorter than n
Take(source, n) ==
    IF n <= Len(source)
    THEN [values |-> SubSeq(source, 1, n), result |-> "ok"]
    ELSE [values |-> source, result |-> "IndexError"]

ZeroBorders == << [startEdgeSize |-> 0, endEdgeSize |-> 0],
                  [startEdgeSize |-> 0, endEdgeSize |-> 0] >>

\* the padding member a border mode populates ("none": NotImplementedError)
ConvPadding(borderMode) ==
    IF borderMode = "valid" THEN "valid"
    ELSE IF borderMode = "same" THEN "same"
    ELSE "none"

\* the convolution message and the outcome
ConvolutionParams(kernelChannels, outputChannels, height, width, stride_height, stride_width, borderMode, groups, W, b, has_bias, is_deconv, output_shape) ==
    LET p0 == [isDeconvolution |-> is_deconv, outputShape |-> output_shape,
               outputChannels |-> outputChannels, kernelChannels |-> kernelChannels,
               kernelSize |-> <<height, width>>,
               stride |-> <<stride_height, stride_width>>,
               ConvolutionPaddingType |-> ConvPadding(borderMode),
               borderAmounts |-> IF borderMode = "valid" THEN ZeroBorders ELSE <<>>,
               asymmetryMode |-> IF borderMode = "same" THEN "BOTTOM_RIGHT_HEAVY"
                                 ELSE "none",
               nGroups |-> 0, hasBias |-> FALSE, weights |-> <<>>, bias |-> <<>>]
        Wt == IF is_deconv THEN TransposeCFHW(W) ELSE TransposeFCHW(W)
        wr == Take(Wt, outputChannels * kernelChannels * height * width)
        br == Take(b, outputChannels)
        p1 == [p0 EXCEPT !.nGroups = groups, !.hasBias = has_bias,
                         !.weights = wr.values]
    IN  IF ConvPadding(borderMode) = "none"
        THEN [params |-> p0, result |-> "NotImplementedError"]
        ELSE IF wr.result # "ok" \/ ~has_bias
        THEN [params |-> p1, result |-> wr.result]
        ELSE [params |-> [p1 EXCEPT !.bias = br.values], result |-> br.result]

add_convolution(name, kernelChannels, outputChannels, height, width, stride_height, stride_width, borderMode, groups, W, b, has_bias, is_deconv, output_shape, input_name, output_name) ==
    LET r == ConvolutionParams(kernelChannels, outputChannels, height, width,
                               stride_height, stride_width, borderMode, groups,
                               W, b, has_bias, is_deconv, output_shape)
    IN  add_layer(
            LayerCall("add_convolution", r.result, name, <<input_name>>,
                      <<output_name>>, borderMode)
                @@ [args |-> [W |-> W, b |-> b, has_bias |-> has_bias,
                              is_deconv |-> is_deconv]],
            Layer(name, <<input_name>>, <<output_name>>, "convolution", r.params))

\* a kernel tensor of shape (H, W, C, F) = (1, 2, 2, 2) and its bias
ConvW == << << << <<1, 2>>, <<3, 4>> >>, << <<5, 6>>, <<7, 8>> >> >> >>

ConvB == <<9, 10>>

\* the border modes and input names tried
ConvolutionChoices ==
    { <<"valid", "data">>, <<"same", "h">>, <<"full", "data">> }

\* ------------------------------------------------------------------------
\* add_pooling, add_padding, add_crop
\* ------------------------------------------------------------------------
PoolingTypes == {"MAX", "AVERAGE", "L2"}

PoolPadding(padding_type) ==
    IF padding_type = "VALID" THEN "valid"
    ELSE IF padding_type = "SAME" THEN "same"
    ELSE "none"

\* the pooling message and the outcome; PoolingType.Value(layer_type) raises
\* ValueError on a name that is not of the enumeration
PoolingParams(height, width, stride_height, stride_width, layer_type, padding_type, exclude_pad_area, is_global) ==
    IF layer_type \notin PoolingTypes
    THEN [layer |-> "none", params |-> NoParams, result |-> "ValueError"]
    ELSE [layer |-> "pooling",
          params |-> [type |-> layer_type,
                      PoolingPaddingType |-> PoolPadding(padding_type),
                      borderAmounts |-> IF padding_type = "VALID" THEN ZeroBorders
                                        ELSE <<>>,
                      asymmetryMode |-> IF padding_type = "SAME"
                                        THEN "BOTTOM_RIGHT_HEAVY" ELSE "none",
                      kernelSize |-> <<height, width>>,
                      stride |-> <<stride_height, stride_width>>,
                      avgPoolExcludePadding |-> exclude_pad_area,
                      globalPooling |-> is_global],
          result |-> "ok"]

add_pooling(name, height, width, stride_height, stride_width, layer_type, padding_type, exclude_pad_area, is_global, input_name, output_name) ==
    LET r == PoolingParams(height, width, stride_height, stride_width, layer_type,
                           padding_type, exclude_pad_area, is_global)
    IN  add_layer(
            LayerCall("add_pooling", r.result, name, <<input_name>>,
                      <<output_name>>, padding_type),
            Layer(name, <<input_name>>, <<output_name>>, r.layer, r.params))

\* the pooling types, padding types and input names tried
PoolingChoices ==
    { <<"MAX", "VALID", "data">>, <<"AVERAGE", "SAME", "h">>,
      <<"L2", "FULL", "data">>, <<"MIN", "VALID", "data">> }

add_padding(name, left, right, top, bottom, value, input_name, output_name) ==
    add_layer(
        LayerCall("add_padding", "ok", name, <<input_name>>, <<output_name>>, ""),
        Layer(name, <<input_name>>, <<output_name>>, "padding",
              [PaddingType |-> "constant", value |-> value,
               borderAmounts |-> << [startEdgeSize |-> top, endEdgeSize |-> bottom],
                                    [startEdgeSize |-> left, endEdgeSize |-> right] >>]))

add_crop(name, left, right, top, bottom, offset, input_name, output_name) ==
    add_layer(
        LayerCall("add_crop", "ok", name, <<input_name>>, <<output_name>>, ""),
        Layer(name, <<input_name>>, <<output_name>>, "crop",
              [offset |-> offset,
               borderAmounts |-> << [startEdgeSize |-> top, endEdgeSize |-> bottom],
                                    [startEdgeSize |-> left, endEdgeSize |-> right] >>]))

\* ------------------------------------------------------------------------
\* add_flatten, add_batchnorm, add_permute, add_reshape, add_dropout
\* ------------------------------------------------------------------------
FlattenParams(mode_) ==
    IF mode_ = 0
    THEN [layer |-> "flatten", params |-> [mode |-> "CHANNEL_FIRST"], result |-> "ok"]
    ELSE IF mode_ = 1
    THEN [layer |-> "flatten", params |-> [mode |-> "CHANNEL_LAST"], result |-> "ok"]
    ELSE [layer |-> "none", params |-> NoParams, result |-> "NotImplementedError"]

add_flatten(mode_, name, input_name, output_name) ==
    LET r == FlattenParams(mode_)
    IN  add_layer(
            LayerCall("add_flatten", r.result, name, <<input_name>>,
                      <<output_name>>, ToString(mode_)),
            Layer(name, <<input_name>>, <<output_name>>, r.layer, r.params))

add_batchnorm(name, channels, gamma, beta, mean, variance, input_name, output_name, epsilon, computeMeanVar, instanceNormalization) ==
    add_layer(
        LayerCall("add_batchnorm", "ok", name, <<input_name>>, <<output_name>>, ""),
        Layer(name, <<input_name>>, <<output_name>>, "batchnorm",
              [channels |-> channels, gamma |-> gamma, beta |-> beta,
               mean |-> mean, variance |-> variance, epsilon |-> epsilon,
               computeMeanVar |-> computeMeanVar,
               instanceNormalization |-> instanceNormalization]))

add_permute(name, input_name, output_name, dim) ==
    add_layer(
        LayerCall("add_permute", "ok", name, <<input_name>>, <<output_name>>, ""),
        Layer(name, <<input_name>>, <<output_name>>, "permute", [axis |-> dim]))

ReshapeMode(mode_) == IF mode_ = 0 THEN "CHANNEL_FIRST" ELSE "CHANNEL_LAST"

add_reshape(name, input_name, output_name, target_shape, mode_) ==
    add_layer(
        LayerCall("add_reshape", "ok", name, <<input_name>>, <<output_name>>,
                  ToString(mode_)),
        Layer(name, <<input_name>>, <<output_name>>, "reshape",
              [targetShape |-> target_shape, mode |-> ReshapeMode(mode_)]))

\* add_dropout: pass
add_dropout(name, input_name, output_name) ==
    /\ CanCall
    /\ call' = LayerCall("add_dropout", "ok", name, <<input_name>>, <<output_name>>, "")
    /\ calls' = Logged(call')
    /\ UNCHANGED <<mode, populated, input, output, predictedFeatureName,
                   predictedProbabilitiesName, classLabels, layers, preprocessing,
                   specificationVersion>>

\* the flatten and reshape modes and input names tried
ModeChoices == { <<0, "data">>, <<1, "h">>, <<2, "data">> }

\* ------------------------------------------------------------------------
\* Recurrent layers
\* ------------------------------------------------------------------------
\* _set_recurrent_activation: the member populated ("none": TypeError)
set_recurrent_activation(activation) ==
    CASE activation = "SIGMOID" -> "sigmoid"
      [] activation = "TANH" -> "tanh"
      [] activation = "LINEAR" -> "linear"
      [] activation = "SIGMOID_HARD" -> "sigmoidHard"
      [] activation = "SCALED_TANH" -> "scaledTanh"
      [] activation = "RELU" -> "ReLU"
      [] OTHER -> "none"

\* activations.add() once per entry of acts, then _set_recurrent_activation on
\* each in turn: the first unsupported one raises and leaves it and the later
\* ones empty
SetActivations(acts) ==
    LET bad == {i \in 1..Len(acts) : set_recurrent_activation(acts[i]) = "none"}
        firstBad == IF bad = {} THEN Len(acts) + 1
                    ELSE CHOOSE i \in bad : \A j \in bad : i <= j
    IN  [activations |-> [i \in 1..Len(acts) |->
                            IF i < firstBad THEN set_recurrent_activation(acts[i])
                            ELSE "none"],
         result |-> IF bad = {} THEN "ok" ELSE "TypeError"]

\* Present without the test b.any()
PresentNotNone(b) == ~b.isNone

\* b is not None and b.any()
Present(b) == ~b.isNone /\ AnyNonZero(b.v)

\* GateMatrix with the slice starting at row g instead of row g*hidden_size
GateMatrixUnscaled(W, g, hidden_size) == Flatten(Slice(W, g, g + hidden_size))

\* W[0, 0, g*hidden_size:(g+1)*hidden_size, :].flatten(), W given as its
\* matrix of rows
GateMatrix(W, g, hidden_size) == Flatten(Slice(W, g * hidden_size, (g + 1) * hidden_size))

\* b[g*hidden_size:(g+1)*hidden_size].flatten()
GateVector(b, g, hidden_size) == Slice(b, g * hidden_size, (g + 1) * hidden_size)

VanillaRnnParams(W_h, W_x, b, activation, hidden_size, input_size, output_all, reverse_input) ==
    LET a  == SetActivations(<<activation>>)
        p0 == [reverseInput |-> reverse_input, inputVectorSize |-> input_size,
               outputVectorSize |-> hidden_size, hasBiasVector |-> Present(b),
               sequenceOutput |-> output_all, activation |-> a.activations[1],
               weightMatrix |-> <<>>, recursionMatrix |-> <<>>, biasVector |-> <<>>]
    IN  IF a.result # "ok" THEN [params |-> p0, result |-> a.result]
        ELSE [params |-> [p0 EXCEPT !.weightMatrix = Flatten(W_x),
                                    !.recursionMatrix = Flatten(W_h),
                                    !.biasVector = IF Present(b) THEN b.v ELSE <<>>],
              result |-> "ok"]

add_vanilla_rnn(name, W_h, W_x, b, activation, hidden_size, input_size, input_names, output_names, output_all, reverse_input) ==
    LET r == VanillaRnnParams(W_h, W_x, b, activation, hidden_size, input_size,
                              output_all, reverse_input)
    IN  add_layer(
            LayerCall("add_vanilla_rnn", r.result, name, input_names, output_names,
                      activation)
                @@ [args |-> [W_h |-> W_h, W_x |-> W_x, b |-> b,
                              hidden_size |-> hidden_size]],
            Layer(name, input_names, output_names, "simpleRecurrent", r.params))

GruParams(W_h, W_x, b, activation, inner_activation, hidden_size, input_size, output_all, reverse_input) ==
    LET a  == SetActivations(<<inner_activation, activation>>)
        h  == hidden_size
        p0 == [inputVectorSize |-> input_size, outputVectorSize |-> hidden_size,
               hasBiasVectors |-> Present(b), sequenceOutput |-> output_all,
               reverseInput |-> reverse_input, activations |-> a.activations,
               updateGateWeightMatrix |-> <<>>, resetGateWeightMatrix |-> <<>>,
               outputGateWeightMatrix |-> <<>>,
               updateGateRecursionMatrix |-> <<>>, resetGateRecursionMatrix |-> <<>>,
               outputGateRecursionMatrix |-> <<>>,
               updateGateBiasVector |-> <<>>, resetGateBiasVector |-> <<>>,
               outputGateBiasVector |-> <<>>]
        p1 == [p0 EXCEPT
                 !.updateGateWeightMatrix = GateMatrix(W_x, 0, h),
                 !.resetGateWeightMatrix = GateMatrix(W_x, 1, h),
                 !.outputGateWeightMatrix = GateMatrix(W_x, 2, h),
                 !.updateGateRecursionMatrix = GateMatrix(W_h, 0, h),
                 !.resetGateRecursionMatrix = GateMatrix(W_h, 1, h),
                 !.outputGateRecursionMatrix = GateMatrix(W_h, 2, h)]
    IN  IF a.result # "ok" THEN [params |-> p0, result |-> a.result]
        ELSE IF ~Present(b) THEN [params |-> p1, result |-> "ok"]
        ELSE [params |-> [p1 EXCEPT
                            !.updateGateBiasVector = GateVector(b.v, 0, h),
                            !.resetGateBiasVector = GateVector(b.v, 1, h),
                            !.outputGateBiasVector = GateVector(b.v, 2, h)],
              result |-> "ok"]

add_gru(name, W_h, W_x, b, activation, inner_activation, hidden_size, input_size, input_names, output_names, output_all, reverse_input) ==
    LET r == GruParams(W_h, W_x, b, activation, inner_activation, hidden_size,
                       input_size, output_all, reverse_input)
    IN  add_layer(
            LayerCall("add_gru", r.result, name, input_names, output_names,
                      activation)
                @@ [args |-> [W_h |-> W_h, W_x |-> W_x, b |-> b,
                              hidden_size |-> hidden_size]],
            Layer(name, input_names, output_names, "gru", r.params))

\* one LSTMWeightParams block with nothing written
NoLstmWeights ==
    [inputGateWeightMatrix |-> <<>>, forgetGateWeightMatrix |-> <<>>,
     outputGateWeightMatrix |-> <<>>, blockInputWeightMatrix |-> <<>>,
     inputGateRecursionMatrix |-> <<>>, forgetGateRecursionMatrix |-> <<>>,
     outputGateRecursionMatrix |-> <<>>, blockInputRecursionMatrix |-> <<>>,
     inputGateBiasVector |-> <<>>, forgetGateBiasVector |-> <<>>,
     outputGateBiasVector |-> <<>>, blockInputBiasVector |-> <<>>,
     inputGatePeepholeVector |-> <<>>, forgetGatePeepholeVector |-> <<>>,
     outputGatePeepholeVector |-> <<>>]

\* "Write the weights": the eight gate matrices of a block
LstmMatrices(wp, W_h, W_x, h) ==
    [wp EXCEPT
       !.inputGateWeightMatrix = GateMatrix(W_x, 0, h),
       !.forgetGateWeightMatrix = GateMatrix(W_x, 1, h),
       !.outputGateWeightMatrix = GateMatrix(W_x, 2, h),
       !.blockInputWeightMatrix = GateMatrix(W_x, 3, h),
       !.inputGateRecursionMatrix = GateMatrix(W_h, 0, h),
       !.forgetGateRecursionMatrix = GateMatrix(W_h, 1, h),
       !.outputGateRecursionMatrix = GateMatrix(W_h, 2, h),
       !.blockInputRecursionMatrix = GateMatrix(W_h, 3, h)]

\* the four bias vectors of a block, cut from the vector b
LstmBias(wp, b, h) ==
    [wp EXCEPT
       !.inputGateBiasVector = GateVector(b, 0, h),
       !.forgetGateBiasVector = GateVector(b, 1, h),
       !.outputGateBiasVector = GateVector(b, 2, h),
       !.blockInputBiasVector = GateVector(b, 3, h)]

\* the three peephole vectors of a block, cut from the vector peep
LstmPeep(wp, peep, h) ==
    [wp EXCEPT
       !.inputGatePeepholeVector = GateVector(peep, 0, h),
       !.forgetGatePeepholeVector = GateVector(peep, 1, h),
       !.outputGatePeepholeVector = GateVector(peep, 2, h)]

\* the weight block of add_unilstm and the forward block of add_bidirlstm
LstmBlock(W_h, W_x, b, peep, h) ==
    LET w0 == LstmMatrices(NoLstmWeights, W_h, W_x, h)
        w1 == IF Present(b) THEN LstmBias(w0, b.v, h) ELSE w0
    IN  IF Present(peep) THEN LstmPeep(w1, peep.v, h) ELSE w1

LstmFlags(b, peep, output_all, forget_bias, coupled_input_forget_gate, cell_clip_threshold) ==
    [sequenceOutput |-> output_all, forgetBias |-> forget_bias,
     hasBiasVectors |-> Present(b), hasPeepholeVectors |-> Present(peep),
     coupledInputAndForgetGate |-> coupled_input_forget_gate,
     cellClipThreshold |-> cell_clip_threshold]

UniLstmParams(hidden_size, input_size, W_h, W_x, inner_activation, cell_state_update_activation, output_activation, b, peep, output_all, forget_bias, coupled_input_forget_gate, cell_clip_threshold, reverse_input) ==
    LET a  == SetActivations(<<inner_activation, cell_state_update_activation,
                               output_activation>>)
        p0 == [inputVectorSize |-> input_size, outputVectorSize |-> hidden_size,
               params |-> LstmFlags(b, peep, output_all, forget_bias,
                                    coupled_input_forget_gate, cell_clip_threshold),
               reverseInput |-> reverse_input, activations |-> a.activations,
               weightParams |-> NoLstmWeights]
    IN  IF a.result # "ok" THEN [params |-> p0, result |-> a.result]
        ELSE [params |-> [p0 EXCEPT !.weightParams =
                                       LstmBlock(W_h, W_x, b, peep, hidden_size)],
              result |-> "ok"]

add_unilstm(name, hidden_size, input_size, input_names, output_names, W_h, W_x, inner_activation, cell_state_update_activation, output_activation, b, peep, output_all, forget_bias, coupled_input_forget_gate, cell_clip_threshold, reverse_input) ==
    LET r == UniLstmParams(hidden_size, input_size, W_h, W_x, inner_activation,
                           cell_state_update_activation, output_activation, b,
                           peep, output_all, forget_bias,
                           coupled_input_forget_gate, cell_clip_threshold,
                           reverse_input)
    IN  add_layer(
            LayerCall("add_unilstm", r.result, name, input_names, output_names,
                      output_activation)
                @@ [args |-> [W_h |-> W_h, W_x |-> W_x, b |-> b, peep |-> peep,
                              hidden_size |-> hidden_size]],
            Layer(name, input_names, output_names, "uniDirectionalLSTM", r.params))

\* the backward block of add_bidirlstm and the outcome: its bias vectors are
\* read from b_back when the forward b is present (TypeError when b_back is
\* None then)
LstmBackBlock(W_h_back, W_x_back, b, b_back, peep_back, h) ==
    LET w0 == LstmMatrices(NoLstmWeights, W_h_back, W_x_back, h)
        w1 == IF Present(b) /\ ~b_back.isNone THEN LstmBias(w0, b_back.v, h) ELSE w0
    IN  IF Present(b) /\ b_back.isNone THEN [block |-> w0, result |-> "TypeError"]
        ELSE [block |-> IF Present(peep_back) THEN LstmPeep(w1, peep_back.v, h)
                        ELSE w1,
              result |-> "ok"]

BidirLstmParams(hidden_size, input_size, W_h, W_x, W_h_back, W_x_back, inner_activation, cell_state_update_activation, output_activation, b, b_back, peep, peep_back, output_all, forget_bias, coupled_input_forget_gate, cell_clip_threshold) ==
    LET a  == SetActivations(<<inner_activation, cell_state_update_activation,
                               output_activation>>)
        bk == LstmBackBlock(W_h_back, W_x_back, b, b_back, peep_back, hidden_size)
        p0 == [inputVectorSize |-> input_size, outputVectorSize |-> hidden_size,
               params |-> LstmFlags(b, peep, output_all, forget_bias,
                                    coupled_input_forget_gate, cell_clip_threshold),
               activationsForwardLSTM |-> a.activations,
               activationsBackwardLSTM |-> <<>>,
               weightParams |-> <<NoLstmWeights, NoLstmWeights>>]
    IN  IF a.result # "ok" THEN [params |-> p0, result |-> a.result]
        ELSE [params |-> [p0 EXCEPT
                            !.activationsBackwardLSTM = a.activations,
                            !.weightParams =
                                <<LstmBlock(W_h, W_x, b, peep, hidden_size),
                                  bk.block>>],
              result |-> bk.result]

add_bidirlstm(name, hidden_size, input_size, input_names, output_names, W_h, W_x, W_h_back, W_x_back, inner_activation, cell_state_update_activation, output_activation, b, b_back, peep, peep_back, output_all, forget_bias, coupled_input_forget_gate, cell_clip_threshold) ==
    LET r == BidirLstmParams(hidden_size, input_size, W_h, W_x, W_h_back,
                             W_x_back, inner_activation,
                             cell_state_update_activation, output_activation, b,
                             b_back, peep, peep_back, output_all, forget_bias,
                             coupled_input_forget_gate, cell_clip_threshold)
    IN  add_layer(
            LayerCall("add_bidirlstm", r.result, name, input_names, output_names,
                      output_activation)
                @@ [args |-> [W_h |-> W_h, W_x |-> W_x, W_h_back |-> W_h_back,
                              W_x_back |-> W_x_back, b |-> b, b_back |-> b_back,
                              peep |-> peep, peep_back |-> peep_back,
                              hidden_size |-> hidden_size]],
            Layer(name, input_names, output_names, "biDirectionalLSTM", r.params))

\* weights for hidden_size 1 and input_size 2: W_x has one row of two values
\* per gate, W_h one row of one value per gate, b and peep one value per gate
RnnWx == << <<1, 2>> >>

RnnWh == << <<3>> >>

GruWx == << <<1, 2>>, <<3, 4>>, <<5, 6>> >>

GruWh == << <<7>>, <<8>>, <<9>> >>

LstmWx == << <<1, 2>>, <<3, 4>>, <<5, 6>>, <<7, 8>> >>

LstmWh == << <<9>>, <<10>>, <<11>>, <<12>> >>

\* the biases, activations and input names tried
RecurrentChoices ==
    { <<1, "TANH", "data">>, <<0, "TANH", "h">>, <<1, "SOFTMAX", "data">> }

\* a vector of n values, all zero when k is 0 and k, k+1, ... otherwise
Vec(n, k) == Some([i \in 1..n |-> IF k = 0 THEN 0 ELSE k + i - 1])

Next ==
    \/ \E a \in SetInputChoices : set_input(a[1], a[2])
    \/ \E names \in OutputNamesChoices, dims \in DimsChoices : set_output(names, dims)
    \/ \E a \in ClassLabelsChoices : set_class_labels(a[1], a[2])
    \/ \E opt \in OptionalsChoices : add_optionals(opt[1], opt[2])
    \/ \E a \in ImageChoices :
          set_pre_processing_parameters(a[1], a[2], 1, 2, 3, 4, 5)
    \/ \E n \in LayerNames, i \in InputBlobs, o \in OutputBlobs, hb \in BOOLEAN :
          add_inner_product(n, DenseW, DenseB, 3, 2, hb, i, o)
    \/ \E n \in LayerNames, i \in FirstBlob, o \in OutputBlobs :
          add_embedding(n, DenseW, DenseB, 3, 2, TRUE, i, o)
    \/ \E n \in LayerNames, i \in InputBlobs, o \in OutputBlobs : add_softmax(n, i, o)
    \/ \E n \in LayerNames, a \in ActivationChoices, o \in OutputBlobs :
          add_activation(n, a[1], a[3], o, a[2])
    \/ \E n \in LayerNames, e \in ElementwiseChoices, o \in OutputBlobs :
          add_elementwise(n, e[1], o, e[2])
    \/ \E n \in LayerNames, i \in FirstBlob, o \in OutputBlobs : add_upsample(n, 2, 3, i, o)
    \/ \E n \in LayerNames, i \in FirstBlob, o \in OutputBlobs : add_repeat(n, 2, i, o)
    \/ \E n \in LayerNames, c \in ConvolutionChoices, o \in OutputBlobs :
          add_convolution(n, 2, 2, 1, 2, 1, 1, c[1], 1, ConvW, ConvB, TRUE, FALSE,
                          <<>>, c[2], o)
    \/ \E n \in LayerNames, c \in PoolingChoices, o \in OutputBlobs :
          add_pooling(n, 2, 2, 1, 1, c[1], c[2], FALSE, FALSE, c[3], o)
    \/ \E n \in LayerNames, i \in FirstBlob, o \in OutputBlobs :
          add_padding(n, 1, 2, 3, 4, 0, i, o)
    \/ \E n \in LayerNames, i \in FirstBlob, o \in OutputBlobs :
          add_crop(n, 1, 2, 3, 4, <<0, 0>>, i, o)
    \/ \E n \in LayerNames, c \in ModeChoices, o \in OutputBlobs :
          add_flatten(c[1], n, c[2], o)
    \/ \E n \in LayerNames, i \in FirstBlob, o \in OutputBlobs :
          add_batchnorm(n, 2, <<1, 2>>, <<3, 4>>, <<5, 6>>, <<7, 8>>, i, o, 1,
                        FALSE, FALSE)
    \/ \E n \in LayerNames, i \in FirstBlob, o \in OutputBlobs :
          add_permute(n, i, o, <<0, 2, 1, 3>>)
    \/ \E n \in LayerNames, c \in ModeChoices, o \in OutputBlobs :
          add_reshape(n, c[2], o, <<1, 2, 3>>, c[1])
    \/ \E n \in LayerNames, i \in InputBlobs, o \in OutputBlobs : add_dropout(n, i, o)
    \/ \E n \in LayerNames, c \in RecurrentChoices, o \in OutputBlobs :
          add_vanilla_rnn(n, RnnWh, RnnWx, Vec(1, c[1]), c[2], 1, 2, <<c[3]>>, <<o>>,
                          FALSE, FALSE)
    \/ \E n \in LayerNames, c \in RecurrentChoices, o \in OutputBlobs :
          add_gru(n, GruWh, GruWx, Vec(3, c[1]), c[2], "SIGMOID", 1, 2, <<c[3]>>,
                  <<o>>, FALSE, FALSE)
    \/ \E n \in LayerNames, c \in RecurrentChoices, o \in OutputBlobs :
          add_unilstm(n, 1, 2, <<c[3]>>, <<o>>, LstmWh, LstmWx, "SIGMOID", "TANH",
                      c[2], Vec(4, c[1]), None, FALSE, FALSE, FALSE, 50, FALSE)
    \/ \E n \in LayerNames, c \in RecurrentChoices, o \in OutputBlobs :
          add_bidirlstm(n, 1, 2, <<c[3]>>, <<o>>, LstmWh, LstmWx, LstmWh, LstmWx,
                        "SIGMOID", "TANH", c[2], Vec(4, c[1]), None, None,
                        Vec(3, c[1]), FALSE, FALSE, FALSE, 50)

Spec == Init /\ [][Next]_vars

\* ------------------------------------------------------------------------
\* Properties
\* ------------------------------------------------------------------------
\* this step is a call of op
Called(op) == calls' # calls /\ call'.op = op

LayerOps ==
    {"add_inner_product", "add_embedding", "add_softmax", "add_activation",
     "add_elementwise", "add_upsample", "add_repeat", "add_convolution",
     "add_pooling", "add_padding", "add_crop", "add_vanilla_rnn", "add_gru",
     "add_unilstm", "add_bidirlstm", "add_flatten", "add_batchnorm",
     "add_permute", "add_reshape", "add_dropout"}

IsLayerCall(c) == c.op \in LayerOps

\* the kind-specific parameter variant that belongs to a layer operation
KindOf(c) ==
    CASE c.op = "add_inner_product" -> "innerProduct"
      [] c.op = "add_embedding" -> "embedding"
      [] c.op = "add_softmax" -> "softmax"
      [] c.op = "add_activation" -> "activation"
      [] c.op = "add_elementwise" ->
            (CASE c.arg \in {"CONCAT", "SEQUENCE_CONCAT"} -> "concat"
               [] c.arg = "ADD" -> "add"
               [] c.arg = "MULTIPLY" -> "multiply"
               [] c.arg \in {"COS", "DOT"} -> "dot"
               [] c.arg = "MAX" -> "max"
               [] c.arg = "AVE" -> "average"
               [] OTHER -> "elementwise")
      [] c.op = "add_upsample" -> "upsample"
      [] c.op = "add_repeat" -> "sequenceRepeat"
      [] c.op = "add_convolution" -> "convolution"
      [] c.op = "add_pooling" -> "pooling"
      [] c.op = "add_padding" -> "padding"
      [] c.op = "add_crop" -> "crop"
      [] c.op = "add_vanilla_rnn" -> "simpleRecurrent"
      [] c.op = "add_gru" -> "gru"
      [] c.op = "add_unilstm" -> "uniDirectionalLSTM"
      [] c.op = "add_bidirlstm" -> "biDirectionalLSTM"
      [] c.op = "add_flatten" -> "flatten"
      [] c.op = "add_batchnorm" -> "batchnorm"
      [] c.op = "add_permute" -> "permute"
      [] c.op = "add_reshape" -> "reshape"
      [] OTHER -> "dropout"

\* the record at position i is the one the call c made
RecordOf(i, c) ==
    /\ layers[i].name = c.name
    /\ layers[i].input = c.input
    /\ layers[i].output = c.output

\* C1: add_convolution with a borderMode other than 'valid' or 'same' fails
\* with NotImplementedError and leaves the layer list as it was before the call.
C1_BorderModeLeavesLayers ==
    [][(Called("add_convolution") /\ call'.arg \notin {"valid", "same"})
          => (call'.result = "NotImplementedError" /\ layers' = layers)]_vars

\* C2: after N calls of layer operations (add_dropout included) the layer list
\* has length N, its i-th record is the one of the i-th call, and every record
\* has the parameter variant of the operation that made it populated.
C2_OneRecordPerCall ==
    LET lc == SelectSeq(calls, IsLayerCall)
    IN  /\ Len(layers) = Len(lc)
        /\ \A i \in 1..Len(lc) :
              i <= Len(layers) => (RecordOf(i, lc[i]) /\ layers[i].layer = KindOf(lc[i]))

\* the blob names defined in a document: top-level inputs and layer outputs
DefinedBlobs(ins, ls) ==
    Range(SlotNames(ins)) \cup UNION {Range(ls[j].output) : j \in 1..Len(ls)}

ProducedBeforeConsumed(ins, ls) ==
    \A i \in 1..Len(ls) : \A n \in Range(ls[i].input) :
        \/ n \in Range(SlotNames(ins))
        \/ \E j \in 1..(i - 1) : n \in Range(ls[j].output)

\* C3: in every reachable state each input name of each layer is a top-level
\* input or an output of an earlier layer of the list, whatever names the
\* caller passes.
C3_ProducedBeforeConsumed == ProducedBeforeConsumed(input, layers)

\* C3 as amended: the builder does not check names; a call keeps the list
\* produced-before-consumed when the list was so before it and every input
\* name the call passes is, at the time of the call, a top-level input or an
\* output of a layer already in the list.
C3_OrderedCallsKeepOrder ==
    [][(/\ ProducedBeforeConsumed(input, layers)
        /\ layers' # layers => Range(call'.input) \subseteq DefinedBlobs(input, layers))
          => ProducedBeforeConsumed(input', layers')]_vars

\* a second layer consumes the output of the first
C3_Witness ==
    /\ Len(layers) = 2
    /\ layers[1].input = <<"data">>
    /\ layers[2].input = <<"h">>
    /\ ProducedBeforeConsumed(input, layers)

\* C4: the layer list and the input and output slot-name lists only grow at
\* the end: at every step the old list is a prefix of the new one.
C4_AppendOnly ==
    [][/\ IsPrefix(layers, layers')
       /\ IsPrefix(SlotNames(input), SlotNames(input'))
       /\ IsPrefix(SlotNames(output), SlotNames(output'))]_vars

\* a layer was added and then set_class_labels appended an output slot
C4_Witness ==
    /\ Len(layers) = 1
    /\ call.op = "set_class_labels" /\ call.result = "ok"
    /\ SlotNames(output) = <<"probs", "classLabel">>

\* C5: right after construction and after any sequence of operations exactly
\* one of the three top-level variants is populated, the one mode selects.
C5_VariantOfModePopulated == populated = Variant(mode)

\* C6: set_class_labels with an empty label list on a document with at least
\* one output changes no part of the document.
C6_EmptyLabelsNoOp ==
    [][(Called("set_class_labels") /\ call'.class_labels = <<>> /\ Len(output) >= 1)
          => document' = document]_vars

AllOfType(labels, ty) == \A i \in 1..Len(labels) : labels[i].ty = ty

Homogeneous(labels) == AllOfType(labels, "int") \/ AllOfType(labels, "str")

\* C7: set_class_labels with labels that are neither all integers nor all
\* strings fails with TypeError and leaves the document unchanged (stated for
\* a classifier document that has an output, where no other failure applies).
C7_MixedLabelsRejectedCleanly ==
    [][(/\ Called("set_class_labels")
        /\ mode = "classifier"
        /\ Len(output) >= 1
        /\ ~Homogeneous(call'.class_labels))
          => (call'.result = "TypeError" /\ document' = document)]_vars

\* C8: set_class_labels with a non-empty list of only integers (or only
\* strings) on a classifier document with an output makes the first output a
\* dictionary keyed by the label type, appends one output slot named
\* predicted_feature_name of the label type, sets the two predicted names and
\* stores the labels in call order in the vector of that type.
C8_LabelsSet ==
    [][(/\ Called("set_class_labels")
        /\ mode = "classifier"
        /\ Len(output) >= 1
        /\ call'.class_labels # <<>>
        /\ Homogeneous(call'.class_labels))
          => LET labels == call'.class_labels
                 isInt  == labels[1].ty = "int"
                 n      == Len(output)
             IN  /\ call'.result = "ok"
                 /\ Len(output') = n + 1
                 /\ output'[1].name = output[1].name
                 /\ output'[1].type.Type = "dictionaryType"
                 /\ output'[1].type.KeyType =
                       (IF isInt THEN "int64KeyType" ELSE "stringKeyType")
                 /\ \A i \in 2..n : output'[i] = output[i]
                 /\ output'[n + 1].name = call'.predicted_feature_name
                 /\ output'[n + 1].type.Type =
                       (IF isInt THEN "int64Type" ELSE "stringType")
                 /\ predictedProbabilitiesName' = output[1].name
                 /\ predictedFeatureName' = call'.predicted_feature_name
                 /\ classLabels'.which =
                       (IF isInt THEN "int64ClassLabels" ELSE "stringClassLabels")
                 /\ classLabels'.vector = [i \in 1..Len(labels) |-> labels[i].v]]_vars

\* string labels were set on a classifier that held integer labels
C8_Witness ==
    /\ mode = "classifier"
    /\ Len(calls) = 2
    /\ calls[1].op = "set_class_labels" /\ calls[1].result = "ok"
    /\ call.op = "set_class_labels" /\ call.result = "ok"
    /\ call.class_labels = Strs
    /\ classLabels = [which |-> "stringClassLabels", vector |-> <<2, 1>>]
    /\ Len(output) = 3

\* C9: set_class_labels on a document with no output fails with StateError,
\* for any label list, and leaves the document unchanged.
C9_NoOutputStateError ==
    [][(Called("set_class_labels") /\ Len(output) = 0)
          => (call'.result = "StateError" /\ document' = document)]_vars

\* C9 as amended: set_class_labels on a document with no output fails with
\* ValueError, for any label list, and leaves the document unchanged.
C9_NoOutputValueError ==
    [][(Called("set_class_labels") /\ Len(output) = 0)
          => (call'.result = "ValueError" /\ document' = document)]_vars

\* set_class_labels with integer labels was refused for want of an output
C9_Witness ==
    /\ call.op = "set_class_labels"
    /\ call.class_labels = Ints
    /\ call.result = "ValueError"
    /\ Len(output) = 0
    /\ mode = "classifier"

\* the shape the interface is to hold for a dim of rank 1, 2 or 3
Normalised(dim) == IF Len(dim) = 2 THEN <<dim[2]>> ELSE dim

RanksValid(dims) == \A i \in 1..Len(dims) : Len(dims[i]) \in {1, 2, 3}

\* C10: for dims of rank 1, 2 or 3, set_input and set_output both store at
\* slot i the shape (d) for (d), (d2) for (d1,d2) and (c,h,w) for (c,h,w).
C10_ShapesNormalised ==
    [][/\ (Called("set_input") /\ RanksValid(call'.dims)
             /\ Len(call'.dims) <= Len(input))
          => \A i \in 1..Len(call'.dims) :
                input'[i].type.shape = Normalised(call'.dims[i])
       /\ (Called("set_output") /\ RanksValid(call'.dims)
             /\ Len(call'.dims) <= Len(output))
          => \A i \in 1..Len(call'.dims) :
                output'[i].type.shape = Normalised(call'.dims[i])]_vars

\* every multi-array slot holds a shape of rank 1, 2 or 3
SlotRanksValid(slots) ==
    \A i \in 1..Len(slots) :
        slots[i].type.Type = "multiArrayType" => Len(slots[i].type.shape) \in {1, 2, 3}

\* C11: set_input and set_output fail whenever a shape of the dims list has a
\* rank outside {1,2,3}, and neither ever leaves a shape of such a rank in an
\* interface slot.
C11_BadRankRejected ==
    [][/\ ((Called("set_input") \/ Called("set_output")) /\ ~RanksValid(call'.dims))
             => call'.result # "ok"
       /\ (Called("set_input") \/ Called("set_output"))
             => (SlotRanksValid(input') /\ SlotRanksValid(output'))]_vars

IsSetInput(c) == c.op = "set_input" /\ c.result = "ok"

\* the positions of the calls of the history that covered slot i
Covering(i) == {k \in 1..Len(calls) : Len(calls[k].dims) >= i}

\* the shapes of the input slots at construction
ConstructedShape(i) == (CHOOSE f \in InputFeatureChoices : TRUE)[i].shape

MaxDim == 3

MaxVolume == 6

\* the shapes (H, W, Cin, Cout) of the kernel tensors tried
TensorShapes ==
    { sh \in (1..MaxDim) \X (1..MaxDim) \X (1..MaxDim) \X (1..MaxDim) :
        sh[1] * sh[2] * sh[3] * sh[4] <= MaxVolume }

\* the tensor of a shape whose entry at [h][w][c][f] spells its own position
Tensor(sh) ==
    [h \in 1..sh[1] |-> [w \in 1..sh[2] |-> [c \in 1..sh[3] |->
        [f \in 1..sh[4] |-> 1000 * h + 100 * w + 10 * c + f]]]]

\* a bias vector of n values
BiasOf(n) == [i \in 1..n |-> 50 + i]

ConvolutionWithArgs ==
    \E sh \in TensorShapes, d \in BOOLEAN :
        add_convolution("layer", sh[3], sh[4], sh[1], sh[2], 1, 1, "valid", 1,
                        Tensor(sh), BiasOf(sh[4]), TRUE, d, <<>>, "data", "h")

MaxHidden == 2

\* a matrix of the given shape whose entry at [r][c] spells its own position
Matrix(rows, cols, base) ==
    [r \in 1..rows |-> [c \in 1..cols |-> base + 10 * r + c]]

\* an optional vector of n values: absent, all zero, no zero, or zero but for
\* its last value
VectorChoices(n, base) ==
    { None,
      Some([i \in 1..n |-> 0]),
      Some([i \in 1..n |-> base + i]),
      Some([i \in 1..n |-> IF i = n THEN base + i ELSE 0]) }

\* absent, all zero, or no zero
FewVectorChoices(n, base) ==
    { None, Some([i \in 1..n |-> 0]), Some([i \in 1..n |-> base + i]) }

VanillaRnnWithArgs ==
    \E h \in 1..MaxHidden, n \in 1..MaxHidden :
      \E b \in VectorChoices(h, 500) :
        add_vanilla_rnn("layer", Matrix(h, h, 200), Matrix(h, n, 100), b, "TANH",
                        h, n, <<"data">>, <<"h">>, FALSE, FALSE)

GruWithArgs ==
    \E h \in 1..MaxHidden, n \in 1..MaxHidden :
      \E b \in VectorChoices(3 * h, 500) :
        add_gru("layer", Matrix(3 * h, h, 200), Matrix(3 * h, n, 100), b, "TANH",
                "SIGMOID", h, n, <<"data">>, <<"h">>, FALSE, FALSE)

UniLstmWithArgs ==
    \E h \in 1..MaxHidden, n \in 1..MaxHidden :
      \E b \in VectorChoices(4 * h, 500), peep \in VectorChoices(3 * h, 600) :
        add_unilstm("layer", h, n, <<"data">>, <<"h">>, Matrix(4 * h, h, 200),
                    Matrix(4 * h, n, 100), "SIGMOID", "TANH", "TANH", b, peep,
                    FALSE, FALSE, FALSE, 50, FALSE)

BidirLstmWithArgs ==
    \E h \in 1..MaxHidden :
      \E b \in FewVectorChoices(4 * h, 500), b_back \in FewVectorChoices(4 * h, 700),
         peep \in FewVectorChoices(3 * h, 600),
         peep_back \in FewVectorChoices(3 * h, 800) :
        add_bidirlstm("layer", h, 1, <<"data">>, <<"h">>, Matrix(4 * h, h, 200),
                      Matrix(4 * h, 1, 100), Matrix(4 * h, h, 400),
                      Matrix(4 * h, 1, 300), "SIGMOID", "TANH", "TANH", b, b_back,
                      peep, peep_back, FALSE, FALSE, FALSE, 50)

InnerProductWithArgs ==
    \E nB \in 1..MaxDim, nC \in 1..MaxDim, has_bias \in BOOLEAN :
        add_inner_product("layer", Matrix(nB, nC, 0), BiasOf(nC), nB, nC, has_bias,
                          "data", "h")

EmbeddingWithArgs ==
    \E nB \in 1..MaxDim, nC \in 1..MaxDim, has_bias \in BOOLEAN :
        add_embedding("layer", Matrix(nB, nC, 0), BiasOf(nC), nB, nC, has_bias,
                      "data", "h")

\* the kind tags add_activation supports
ActivationKinds ==
    {"RELU", "SIGMOID", "TANH", "SCALED_TANH", "SOFTPLUS", "SOFTSIGN",
     "SIGMOID_HARD", "LEAKYRELU", "PRELU", "ELU", "PARAMETRICSOFTPLUS",
     "THRESHOLDEDRELU", "LINEAR"}

\* the kind tags _set_recurrent_activation supports
RecurrentKinds == {"SIGMOID", "TANH", "LINEAR", "SIGMOID_HARD", "SCALED_TANH", "RELU"}

RecurrentOps == {"add_vanilla_rnn", "add_gru", "add_unilstm", "add_bidirlstm"}

\* the values passed as params: None, a float, lists and 1-D arrays of one
\* and two floats, a list of two arrays of two values each (in tenths)
ParamsChoices ==
    << NoParam, Scalar(7), List(<<7>>), List(<<7, 8>>), Array(<<7>>),
       Array(<<7, 8>>), Arrays(<<7, 9>>, <<8, 6>>) >>

ActivationWithArgs ==
    \E non_linearity \in ActivationKinds \cup {"SWISH"}, i \in DOMAIN ParamsChoices :
        add_activation("layer", non_linearity, "data", "h", ParamsChoices[i])

\* the call studied is the first and only call on the fresh builder
NextArgs ==
    /\ calls = <<>>
    /\ \/ ConvolutionWithArgs
       \/ ActivationWithArgs
       \/ InnerProductWithArgs
       \/ EmbeddingWithArgs
       \/ VanillaRnnWithArgs
       \/ GruWithArgs
       \/ UniLstmWithArgs
       \/ BidirLstmWithArgs

SpecArgs == Init /\ [][NextArgs]_vars

\* the parameters of the record the last call appended
Appended == layers'[Len(layers')].params

RowBlock(W, g, h) ==
    LET cols == Len(W[1])
    IN  [k \in 1..(h * cols) |->
            W[g * h + ((k - 1) \div cols) + 1][((k - 1) % cols) + 1]]

\* values [g*h : (g+1)*h] of the vector v
VectorBlock(v, g, h) == [k \in 1..h |-> v[g * h + k]]

Kept(b) == IF ~b.isNone /\ (\E i \in 1..Len(b.v) : b.v[i] # 0) THEN b.v ELSE <<>>

\* C15: add_vanilla_rnn, add_gru and add_unilstm store no bias (peephole)
\* value when the caller's vector is absent or all zero, and all its values,
\* unchanged and in order, gate after gate, when one at least is not zero.
C15_ZeroVectorsOmitted ==
    [][/\ (Called("add_vanilla_rnn") /\ call'.result = "ok")
             => Appended.biasVector = Kept(call'.args.b)
       /\ (Called("add_gru") /\ call'.result = "ok")
             => Appended.updateGateBiasVector \o Appended.resetGateBiasVector
                    \o Appended.outputGateBiasVector = Kept(call'.args.b)
       /\ (Called("add_unilstm") /\ call'.result = "ok")
             => LET p == Appended.weightParams
                IN  /\ p.inputGateBiasVector \o p.forgetGateBiasVector
                          \o p.outputGateBiasVector \o p.blockInputBiasVector
                            = Kept(call'.args.b)
                    /\ p.inputGatePeepholeVector \o p.forgetGatePeepholeVector
                          \o p.outputGatePeepholeVector = Kept(call'.args.peep)]_vars

\* a GRU of hidden size 2 stored a bias whose only non-zero value is the last
C15_Witness ==
    /\ call.op = "add_gru" /\ call.result = "ok"
    /\ call.args.b = Some(<<0, 0, 0, 0, 0, 506>>)
    /\ Len(layers) = 1
    /\ layers[1].params.updateGateBiasVector = <<0, 0>>
    /\ layers[1].params.outputGateBiasVector = <<0, 506>>

\* the bias values a block of LSTM weights holds, gate after gate
BlockBias(p) ==
    p.inputGateBiasVector \o p.forgetGateBiasVector \o p.outputGateBiasVector
        \o p.blockInputBiasVector

BlockPeephole(p) ==
    p.inputGatePeepholeVector \o p.forgetGatePeepholeVector
        \o p.outputGatePeepholeVector

\* C16: add_bidirlstm builds the backward block from the backward arguments
\* alone (bias vectors stored iff b_back is present and not all zero,
\* peepholes iff peep_back is), whatever b and peep are, and the forward
\* block from the forward arguments alone.
C16_BackwardBlockFromBackwardArgs ==
    [][Called("add_bidirlstm")
          => LET a == call'.args
                 w == Appended.weightParams
             IN  /\ call'.result = "ok"
                 /\ BlockBias(w[1]) = Kept(a.b)
                 /\ BlockPeephole(w[1]) = Kept(a.peep)
                 /\ BlockBias(w[2]) = Kept(a.b_back)
                 /\ BlockPeephole(w[2]) = Kept(a.peep_back)]_vars

\* C17: add_inner_product and add_embedding with a weight matrix W of shape
\* (nB, nC) append one layer with one input and one output name that records
\* the input dimension nB, outputChannels nC, hasBias = has_bias, the weights
\* with W[i][j] at index i*nC + j, and the bias values in order iff has_bias.
C17_DenseLayerRecorded ==
    [][(Called("add_inner_product") \/ Called("add_embedding"))
          => LET a == call'.args
                 r == layers'[Len(layers')]
                 p == r.params
             IN  /\ call'.result = "ok"
                 /\ Len(layers') = Len(layers) + 1
                 /\ Len(r.input) = 1 /\ Len(r.output) = 1
                 /\ IF call'.op = "add_inner_product"
                    THEN r.layer = "innerProduct" /\ p.inputChannels = a.nB
                    ELSE r.layer = "embedding" /\ p.inputDim = a.nB
                 /\ p.outputChannels = a.nC
                 /\ p.hasBias = a.has_bias
                 /\ Len(p.weights) = a.nB * a.nC
                 /\ \A i \in 0..(a.nB - 1), j \in 0..(a.nC - 1) :
                        p.weights[i * a.nC + j + 1] = a.W[i + 1][j + 1]
                 /\ p.bias = IF a.has_bias THEN a.Wb ELSE <<>>]_vars

\* a (3, 2) inner product without bias was recorded
C17_Witness ==
    /\ call.op = "add_inner_product" /\ call.result = "ok"
    /\ call.args.nB = 3 /\ call.args.nC = 2 /\ ~call.args.has_bias
    /\ Len(layers) = 1
    /\ layers[1].params.weights = <<11, 12, 21, 22, 31, 32>>
    /\ layers[1].params.bias = <<>>

\* C18: an activation kind tag outside the supported set makes add_activation,
\* add_vanilla_rnn, add_gru, add_unilstm and add_bidirlstm fail with
\* TypeError and leave the layer list as it was before the call.
C18_UnknownKindLeavesLayers ==
    [][(\/ Called("add_activation") /\ call'.arg \notin ActivationKinds
        \/ calls' # calls /\ call'.op \in RecurrentOps
              /\ call'.arg \notin RecurrentKinds)
          => (call'.result = "TypeError" /\ layers' = layers)]_vars

\* the kinds that take scalar parameters, and how many
PairKinds == {"SCALED_TANH", "SIGMOID_HARD"}

SingleKinds == {"LEAKYRELU", "ELU", "THRESHOLDEDRELU"}

\* C19: add_activation with params None succeeds for SCALED_TANH,
\* SIGMOID_HARD, LEAKYRELU, ELU and THRESHOLDEDRELU and stores a default
\* (an (alpha, beta) pair for the first two, one scalar for the last three);
\* with params given as the list the kind takes, the stored values are the
\* caller's.
C19_DefaultsAndGivenParams ==
    [][(Called("add_activation") /\ call'.arg \in PairKinds \cup SingleKinds)
          => LET p == call'.params
                 n == IF call'.arg \in PairKinds THEN 2 ELSE 1
                 stored == Appended.alpha \o Appended.beta
             IN  /\ p.isNone =>
                        call'.result = "ok" /\ Len(layers') = Len(layers) + 1
                          /\ Len(stored) = n
                 /\ (p.kind = "list" /\ Len(p.v) = n) =>
                        call'.result = "ok" /\ Len(layers') = Len(layers) + 1
                          /\ stored = p.v]_vars

\* C20: add_elementwise rejects a call with fewer than 2 input names, and a
\* call in mode DOT or COS whose number of input names is not exactly 2; a
\* rejected call appends no layer.
C20_InputCountChecked ==
    [][(Called("add_elementwise")
          /\ (\/ Len(call'.input) < 2
              \/ call'.arg \in {"DOT", "COS"} /\ Len(call'.input) # 2))
          => (call'.result # "ok" /\ layers' = layers)]_vars

\* C21: add_flatten and add_reshape fail with NotImplementedError for every
\* mode value outside {0, 1}; mode 0 records CHANNEL_FIRST, mode 1 records
\* CHANNEL_LAST, and no other mode value yields a recorded layer.
C21_ModeOutsideRejected ==
    [][(calls' # calls /\ call'.op \in {"add_flatten", "add_reshape"})
          => IF call'.arg \in {"0", "1"}
             THEN /\ call'.result = "ok"
                  /\ Len(layers') = Len(layers) + 1
                  /\ Appended.mode = (IF call'.arg = "0" THEN "CHANNEL_FIRST"
                                      ELSE "CHANNEL_LAST")
             ELSE call'.result = "NotImplementedError" /\ layers' = layers]_vars

\* the positions of the input slots that a set_pre_processing_parameters call
\* names and that are typed as numeric array when it is made
NamedArrays ==
    { i \in 1..Len(input) :
        /\ input[i].name \in Range(call'.image_input_names)
        /\ input[i].type.Type = "multiArrayType" }

\* slot i became an image of the colour space of its channel count, with the
\* height and width of its (channels, height, width) shape
Promoted(i) ==
    LET shape == input[i].type.shape
    IN  /\ input'[i].name = input[i].name
        /\ input'[i].type =
              [EmptyType EXCEPT
                 !.Type = "imageType",
                 !.colorSpace = IF shape[1] = 1 THEN "GRAYSCALE"
                                ELSE IF call'.is_bgr THEN "BGR" ELSE "RGB",
                 !.height = shape[2],
                 !.width = shape[3]]

PromotedExactlyNamedArrays ==
    /\ call'.result = "ok"
    /\ Len(input') = Len(input)
    /\ \A i \in 1..Len(input) :
          IF i \in NamedArrays THEN Promoted(i) ELSE input'[i] = input[i]

\* C22 as stated: set_pre_processing_parameters promotes exactly the input
\* slots that are named and typed as numeric array, every other slot keeps
\* its type, and a named array slot whose channel count is not 1 or 3 makes
\* the call fail with ValueError.
C22_NamedArraysPromoted ==
    [][Called("set_pre_processing_parameters")
          => IF \E i \in NamedArrays : input[i].type.shape[1] \notin {1, 3}
             THEN call'.result = "ValueError"
             ELSE PromotedExactlyNamedArrays]_vars

\* C22 amended: the promotion happens when every named array slot has a
\* shape of rank 3 with 1 or 3 channels; a named array slot of another rank,
\* or of another channel count, makes the call fail with ValueError.
C22_Rank3NamedArraysPromoted ==
    [][Called("set_pre_processing_parameters")
          => IF \A i \in NamedArrays :
                   /\ Len(input[i].type.shape) = 3
                   /\ input[i].type.shape[1] \in {1, 3}
             THEN PromotedExactlyNamedArrays
             ELSE call'.result = "ValueError"]_vars

\* a named 1-channel slot was promoted to a grayscale image after set_input
\* gave it its shape, and the slot that was not named is still an array
C22_Witness ==
    /\ Len(calls) = 2
    /\ calls[1].op = "set_input" /\ calls[1].result = "ok"
    /\ call.op = "set_pre_processing_parameters" /\ call.result = "ok"
    /\ \E i \in 1..Len(input) :
          input[i].type.Type = "imageType" /\ input[i].type.colorSpace = "GRAYSCALE"
    /\ \E i \in 1..Len(input) : input[i].type.Type = "multiArrayType"

NamesDistinct(slots) ==
    \A i, j \in 1..Len(slots) : i # j => slots[i].name # slots[j].name

\* C23: after any sequence of set_class_labels and add_optionals calls on a
\* document constructed with distinct names, the names of the output slots
\* are pairwise distinct, and so are the names of the input slots.
C23_SlotNamesDistinct ==
    (\A i \in 1..Len(calls) : calls[i].op \in {"set_class_labels", "add_optionals"})
        => (NamesDistinct(input) /\ NamesDistinct(output))

OnlyCalls(ops) == \A i \in 1..Len(calls) : calls[i].op \in ops

\* the label type of a populated class-label field
LabelTypeOf(which) == IF which = "int64ClassLabels" THEN "int" ELSE "str"

\* C24: in a classifier document, after any sequence of set_class_labels
\* calls, the stored label vector (one member of the ClassLabels oneof) has
\* the type of the key of the first output's probability dictionary and of
\* the output slot that predictedFeatureName names.
C24_LabelTypeConsistent ==
    (mode = "classifier" /\ OnlyCalls({"set_class_labels"})
       /\ classLabels.which # "none")
        => LET ty == LabelTypeOf(classLabels.which)
           IN  /\ output[1].type.Type = "dictionaryType"
               /\ output[1].type.KeyType = KeyField(ty)
               /\ \A i \in 1..Len(output) :
                     output[i].name = predictedFeatureName
                        => output[i].type.Type = TypeField(ty)

\* the blocks 2 and 3 of W_x, W_h and b are stored in the block p as the
\* block-input (cell) gate and as the output gate
CellThenOutput(p, W_x, W_h, b, h) ==
    /\ p.blockInputWeightMatrix = RowBlock(W_x, 2, h)
    /\ p.outputGateWeightMatrix = RowBlock(W_x, 3, h)
    /\ p.blockInputRecursionMatrix = RowBlock(W_h, 2, h)
    /\ p.outputGateRecursionMatrix = RowBlock(W_h, 3, h)
    /\ Present(b) =>
          /\ p.blockInputBiasVector = VectorBlock(b.v, 2, h)
          /\ p.outputGateBiasVector = VectorBlock(b.v, 3, h)

\* C25: add_unilstm and add_bidirlstm take W_h, W_x and b ordered [input
\* gate, forget gate, cell gate, output gate], as their docstrings state: the
\* third hidden_size block is stored as the block-input (cell) gate
\* parameters and the fourth as the output-gate parameters.
C25_DocstringGateOrder ==
    [][/\ (Called("add_unilstm") /\ call'.result = "ok")
             => LET a == call'.args
                IN  CellThenOutput(Appended.weightParams, a.W_x, a.W_h, a.b,
                                   a.hidden_size)
       /\ (Called("add_bidirlstm") /\ call'.result = "ok")
             => LET a == call'.args
                IN  CellThenOutput(Appended.weightParams[1], a.W_x, a.W_h, a.b,
                                   a.hidden_size)]_vars

\* C26: add_pooling with a padding type other than 'VALID' or 'SAME' fails
\* with NotImplementedError, and every pooling layer recorded has the valid
\* padding (zero border amounts) or the same padding (BOTTOM_RIGHT_HEAVY)
\* populated.
C26_PoolingPaddingRequired ==
    [][Called("add_pooling")
          => /\ call'.arg \notin {"VALID", "SAME"}
                  => call'.result = "NotImplementedError"
             /\ \A i \in 1..Len(layers') :
                   layers'[i].layer = "pooling"
                      => \/ /\ layers'[i].params.PoolingPaddingType = "valid"
                            /\ layers'[i].params.borderAmounts = ZeroBorders
                         \/ /\ layers'[i].params.PoolingPaddingType = "same"
                            /\ layers'[i].params.asymmetryMode = "BOTTOM_RIGHT_HEAVY"]_vars

InterfaceOps ==
    {"set_input", "set_output", "set_class_labels", "add_optionals",
     "set_pre_processing_parameters"}

\* C27: no layer operation, successful or failed, changes the input or output
\* slots, the predicted feature names, the class-label vector or the schema
\* version; and set_input, set_output, set_class_labels, add_optionals and
\* set_pre_processing_parameters never change the layer list.
C27_DisjointEffects ==
    [][/\ (calls' # calls /\ IsLayerCall(call'))
             => UNCHANGED <<input, output, predictedFeatureName,
                            predictedProbabilitiesName, classLabels,
                            specificationVersion>>
       /\ (calls' # calls /\ call'.op \in InterfaceOps) => layers' = layers]_vars

\* a failed layer operation followed a successful set_class_labels, and the
\* labels and the layer record are both there
C27_Witness ==
    /\ Len(calls) = 2
    /\ calls[1].op = "set_class_labels" /\ calls[1].result = "ok"
    /\ call.op = "add_convolution" /\ call.result = "NotImplementedError"
    /\ classLabels.which = "stringClassLabels"
    /\ predictedFeatureName = "classLabel"
    /\ Len(layers) = 1

\* every gate of the LSTM weight block p holds bias (peephole) values
BiasStored(p) ==
    /\ p.inputGateBiasVector # <<>> /\ p.forgetGateBiasVector # <<>>
    /\ p.outputGateBiasVector # <<>> /\ p.blockInputBiasVector # <<>>

PeepholeStored(p) ==
    /\ p.inputGatePeepholeVector # <<>> /\ p.forgetGatePeepholeVector # <<>>
    /\ p.outputGatePeepholeVector # <<>>

\* C28: in every recurrent layer record the has-bias flag is true iff bias
\* values are stored in every parameter block of the layer, and the
\* has-peephole flag is true iff peephole values are stored in every block
\* (for the bidirectional LSTM: in the forward and in the backward block).
C28_FlagsMatchStoredVectors ==
    \A i \in 1..Len(layers) :
        LET r == layers[i]
            p == r.params
        IN  /\ r.layer = "simpleRecurrent"
                  => (p.hasBiasVector <=> p.biasVector # <<>>)
            /\ r.layer = "gru"
                  => (p.hasBiasVectors <=>
                         /\ p.updateGateBiasVector # <<>>
                         /\ p.resetGateBiasVector # <<>>
                         /\ p.outputGateBiasVector # <<>>)
            /\ r.layer = "uniDirectionalLSTM"
                  => /\ p.params.hasBiasVectors <=> BiasStored(p.weightParams)
                     /\ p.params.hasPeepholeVectors <=> PeepholeStored(p.weightParams)
            /\ r.layer = "biDirectionalLSTM"
                  => /\ p.params.hasBiasVectors <=>
                            \A k \in 1..2 : BiasStored(p.weightParams[k])
                     /\ p.params.hasPeepholeVectors <=>
                            \A k \in 1..2 : PeepholeStored(p.weightParams[k])

\* labels are stored, and an output slot of the name predictedProbabilitiesName
\* is a dictionary keyed by their type
ProbabilitiesKeyedByLabels(outs, name, cl) ==
    /\ cl.which # "none"
    /\ name # ""
    /\ \E i \in 1..Len(outs) :
          /\ outs[i].name = name
          /\ outs[i].type.Type = "dictionaryType"
          /\ outs[i].type.KeyType = KeyField(LabelTypeOf(cl.which))

\* C29: once set_class_labels has succeeded with a non-empty label list, the
\* output slot named by predictedProbabilitiesName is a dictionary keyed by
\* the label type and stays so under the builder operation that follows,
\* whichever it is.
C29_ProbabilitiesStayDictionary ==
    [][(/\ call.op = "set_class_labels" /\ call.result = "ok"
        /\ Len(call.class_labels) > 0)
          => /\ ProbabilitiesKeyedByLabels(output, predictedProbabilitiesName,
                                           classLabels)
             /\ ProbabilitiesKeyedByLabels(output', predictedProbabilitiesName',
                                           classLabels')]_vars

\* C30: a set_input call that fails (a shape of rank outside {1, 2, 3} at
\* some position of the dims list, or more shapes than input slots) has
\* changed no input slot, the slots before the failing position included.
C30_SetInputAllOrNothing ==
    [][(Called("set_input") /\ call'.result # "ok") => input' = input]_vars

====
